---- MODULE Spec2Model ----
(***************************************************************************)
(* Model of script.js: the autosave binder, the session store, the error   *)
(* presenter, the page validators and the submission gate of the           *)
(* multi-page job application form.                                        *)
(*                                                                         *)
(* JavaScript strings are sequences of one-character strings, so that      *)
(* trim(), the regular expressions, the lexical "<" on dates and the JSON  *)
(* text kept in sessionStorage are computed the way the code computes      *)
(* them.  JavaScript values are tagged records.                            *)
(***************************************************************************)
EXTENDS Integers, Sequences, FiniteSets, TLC

(***************************************************************************)
(* Characters and strings                                                  *)
(***************************************************************************)
Digits == {"0", "1", "2", "3", "4", "5", "6", "7", "8", "9"}

WhiteSpace == {" ", "\t"}

Letters == {"a", "b", "c", "d", "e", "i", "l", "m", "n", "o", "s", "t", "x", "y"}

Punctuation == {"@", ".", "-", "+", "(", ")", "#", "\"", "\\", "{", "}", ":", ","}

Alphabet == Digits \cup WhiteSpace \cup Letters \cup Punctuation

\* UTF-16 code unit of each character of the alphabet
Code ==
  [c \in Alphabet |->
     CASE c = "\t" -> 9   [] c = " "  -> 32  [] c = "\"" -> 34
       [] c = "#"  -> 35  [] c = "("  -> 40  [] c = ")"  -> 41
       [] c = "+"  -> 43  [] c = ","  -> 44  [] c = "-"  -> 45
       [] c = "."  -> 46  [] c = "0"  -> 48  [] c = "1"  -> 49
       [] c = "2"  -> 50  [] c = "3"  -> 51  [] c = "4"  -> 52
       [] c = "5"  -> 53  [] c = "6"  -> 54  [] c = "7"  -> 55
       [] c = "8"  -> 56  [] c = "9"  -> 57  [] c = ":"  -> 58
       [] c = "@"  -> 64  [] c = "\\" -> 92  [] c = "a"  -> 97
       [] c = "b"  -> 98  [] c = "c"  -> 99  [] c = "d"  -> 100
       [] c = "e"  -> 101 [] c = "i"  -> 105 [] c = "l"  -> 108
       [] c = "m"  -> 109
       [] c = "n"  -> 110 [] c = "o"  -> 111 [] c = "s"  -> 115
       [] c = "t"  -> 116 [] c = "x"  -> 120 [] c = "y"  -> 121
       [] c = "{"  -> 123 [] c = "}"  -> 125]

\* a < b on two strings: comparison by code units, a proper prefix is smaller
RECURSIVE StrLess(_, _)
StrLess(a, b) ==
  IF b = <<>> THEN FALSE
  ELSE IF a = <<>> THEN TRUE
  ELSE IF Code[Head(a)] # Code[Head(b)] THEN Code[Head(a)] < Code[Head(b)]
  ELSE StrLess(Tail(a), Tail(b))

RECURSIVE TrimStart(_)
TrimStart(s) ==
  IF s # <<>> /\ Head(s) \in WhiteSpace THEN TrimStart(Tail(s)) ELSE s

RECURSIVE TrimEnd(_)
TrimEnd(s) ==
  IF s # <<>> /\ s[Len(s)] \in WhiteSpace
  THEN TrimEnd(SubSeq(s, 1, Len(s) - 1))
  ELSE s

\* String.prototype.trim
Trim(s) == TrimEnd(TrimStart(s))

(***************************************************************************)
(* Regular expressions.  A pattern is a set of alternatives; an            *)
(* alternative is a sequence of items [cls, min, max]: between min and max *)
(* characters of the class cls (max < 0: no upper limit).  All patterns of *)
(* the program are anchored with ^ and $.                                  *)
(***************************************************************************)
One(cls) == [cls |-> cls, min |-> 1, max |-> 1]

Opt(cls) == [cls |-> cls, min |-> 0, max |-> 1]

Rep(cls, n) == [cls |-> cls, min |-> n, max |-> n]

AtLeast(cls, n) == [cls |-> cls, min |-> n, max |-> 0 - 1]

NotSpaceAt == Alphabet \ (WhiteSpace \cup {"@"})

Separator == {"-", "."} \cup WhiteSpace

RECURSIVE MatchFrom(_, _, _, _)
MatchFrom(alt, i, s, pos) ==
  IF i > Len(alt) THEN pos = Len(s) + 1
  ELSE LET it    == alt[i]
           avail == Len(s) - pos + 1
           hi    == IF it.max < 0 \/ it.max > avail THEN avail ELSE it.max
       IN  \E n \in it.min..hi :
              /\ \A k \in 0..(n - 1) : s[pos + k] \in it.cls
              /\ MatchFrom(alt, i + 1, s, pos + n)

\* RegExp.prototype.test for an anchored pattern
RegexTest(pattern, s) == \E alt \in pattern : MatchFrom(alt, 1, s, 1)

KEY == "ufa_app"

VALIDATION_PATTERNS ==
  [email |-> {<<AtLeast(NotSpaceAt, 1), One({"@"}), AtLeast(NotSpaceAt, 1),
                One({"."}), AtLeast(NotSpaceAt, 2)>>},
   phone |-> {<<Opt({"+"}), Opt({"1"}), Opt(Separator), Opt({"("}),
                One({"2", "3", "4", "5", "6", "7", "8", "9"}), Rep(Digits, 2),
                Opt({")"}), Opt(Separator), Rep(Digits, 3), Opt(Separator),
                Rep(Digits, 4)>>},
   zipcode |-> {<<Rep(Digits, 5)>>,
                <<Rep(Digits, 5), One({"-"}), Rep(Digits, 4)>>}]

emailValid(v) == RegexTest(VALIDATION_PATTERNS.email, v)

phoneValid(v) == RegexTest(VALIDATION_PATTERNS.phone, v)

zipValid(v) == RegexTest(VALIDATION_PATTERNS.zipcode, v)

(***************************************************************************)
(* JavaScript values                                                       *)
(***************************************************************************)
\* names of the tracked fields, in the order the pages present them; also
\* the order in which the model serializes the properties of a snapshot
\* (the code keeps insertion order, which no operation of the program reads)
FieldOrder ==
  <<"firstName", "lastName", "email", "phone", "address1", "city", "state",
    "zip", "position", "degree", "licenseReq", "licenseNumber",
    "licenseIssue", "licenseExpiry", "licenseState", "agree">>

Names == {FieldOrder[i] : i \in 1..Len(FieldOrder)}

Undefined == [t |-> "undefined"]

Null == [t |-> "null"]

Str(s) == [t |-> "string", s |-> s]

Bool(b) == [t |-> "boolean", b |-> b]

Num(n) == [t |-> "number", n |-> n]

\* an object whose properties are the names mapped to a value other than
\* undefined
Obj(m) == [t |-> "object", m |-> m]

EmptyObject == Obj([k \in Names |-> Undefined])

\* ToBoolean
Truthy(v) ==
  CASE v.t = "string"  -> v.s # <<>>
    [] v.t = "boolean" -> v.b
    [] v.t = "number"  -> v.n # 0
    [] v.t = "object"  -> TRUE
    [] OTHER           -> FALSE

\* v[name]: throws a TypeError on null and undefined, is undefined on the
\* other primitives
CanIndex(v) == v.t \notin {"null", "undefined"}

Get(v, name) == IF v.t = "object" THEN v.m[name] ELSE Undefined

\* v[name] = x in sloppy mode: ignored on a primitive
Put(v, name, x) ==
  IF v.t = "object" THEN Obj([v.m EXCEPT ![name] = x]) ELSE v

(***************************************************************************)
(* JSON text: a sequence of characters in which a property name and the    *)
(* literals true, false and null are one element each.                     *)
(***************************************************************************)
Atoms == Names \cup {"true", "false", "null"}

\* an encoder that escapes the quote but not the backslash
RECURSIVE EscapeQuoteOnly(_)
EscapeQuoteOnly(s) ==
  IF s = <<>> THEN <<>>
  ELSE LET c == Head(s)
       IN  (CASE c = "\"" -> <<"\\", "\"">>
              [] c = "\t" -> <<"\\", "t">>
              [] OTHER    -> <<c>>) \o EscapeQuoteOnly(Tail(s))

RECURSIVE Escape(_)
Escape(s) ==
  IF s = <<>> THEN <<>>
  ELSE LET c == Head(s)
       IN  (CASE c = "\"" -> <<"\\", "\"">>
              [] c = "\\" -> <<"\\", "\\">>
              [] c = "\t" -> <<"\\", "t">>
              [] OTHER    -> <<c>>) \o Escape(Tail(s))

RECURSIVE NumDigits(_)
NumDigits(n) ==
  LET d == CHOOSE c \in Digits : Code[c] - 48 = n % 10
  IN  IF n < 10 THEN <<d>> ELSE NumDigits(n \div 10) \o <<d>>

StringifyPrim(v) ==
  CASE v.t = "string"  -> <<"\"">> \o Escape(v.s) \o <<"\"">>
    [] v.t = "boolean" -> IF v.b THEN <<"true">> ELSE <<"false">>
    [] v.t = "number"  -> NumDigits(v.n)
    [] OTHER           -> <<"null">>

RECURSIVE StringifyMembers(_, _, _)
StringifyMembers(m, i, first) ==
  IF i > Len(FieldOrder) THEN <<>>
  ELSE LET k == FieldOrder[i]
       IN  IF m[k] = Undefined THEN StringifyMembers(m, i + 1, first)
           ELSE (IF first THEN <<>> ELSE <<",">>)
                  \o <<"\"", k, "\"", ":">> \o StringifyPrim(m[k])
                  \o StringifyMembers(m, i + 1, FALSE)

\* JSON.stringify
JSONstringify(v) ==
  IF v.t = "object"
  THEN <<"{">> \o StringifyMembers(v.m, 1, TRUE) \o <<"}">>
  ELSE StringifyPrim(v)

Fail == [ok |-> FALSE, v |-> Undefined, next |-> 0]

Done(v, next) == [ok |-> TRUE, v |-> v, next |-> next]

At(txt, i) == IF i <= Len(txt) THEN txt[i] ELSE "<eof>"

RECURSIVE SkipWs(_, _)
SkipWs(txt, i) == IF At(txt, i) \in WhiteSpace THEN SkipWs(txt, i + 1) ELSE i

\* the characters of a string literal after its opening quote
RECURSIVE ScanString(_, _, _)
ScanString(txt, i, acc) ==
  LET c == At(txt, i)
  IN  CASE c = "\"" -> Done(acc, i + 1)
        [] c = "\\" ->
             LET e == At(txt, i + 1)
             IN  CASE e \in {"\"", "\\"} -> ScanString(txt, i + 2, Append(acc, e))
                   [] e = "t"            -> ScanString(txt, i + 2, Append(acc, "\t"))
                   [] OTHER              -> Fail
        [] c \in {"<eof>", "\t"} -> Fail
        [] OTHER -> ScanString(txt, i + 1, Append(acc, c))

RECURSIVE ScanNumber(_, _, _)
ScanNumber(txt, i, n) ==
  IF At(txt, i) \in Digits
  THEN ScanNumber(txt, i + 1, 10 * n + (Code[txt[i]] - 48))
  ELSE Done(Num(n), i)

ParsePrim(txt, i) ==
  LET c == At(txt, i)
  IN  CASE c = "\""    -> LET r == ScanString(txt, i + 1, <<>>)
                          IN  IF r.ok /\ \A j \in 1..Len(r.v) : r.v[j] \notin Atoms
                              THEN Done(Str(r.v), r.next) ELSE Fail
        [] c = "true"  -> Done(Bool(TRUE), i + 1)
        [] c = "false" -> Done(Bool(FALSE), i + 1)
        [] c = "null"  -> Done(Null, i + 1)
        [] c = "0"     -> IF At(txt, i + 1) \in Digits THEN Fail
                          ELSE Done(Num(0), i + 1)
        [] c \in Digits \ {"0"} -> ScanNumber(txt, i, 0)
        [] OTHER       -> Fail

\* the members of an object literal; a repeated name keeps its last value
RECURSIVE ParseMembers(_, _, _)
ParseMembers(txt, i, m) ==
  LET key == IF At(txt, i) = "\"" THEN ScanString(txt, i + 1, <<>>) ELSE Fail
  IN  IF ~(key.ok /\ Len(key.v) = 1 /\ key.v[1] \in Names) THEN Fail
      ELSE LET c == SkipWs(txt, key.next)
           IN  IF At(txt, c) # ":" THEN Fail
               ELSE LET val == ParsePrim(txt, SkipWs(txt, c + 1))
                    IN  IF ~val.ok THEN Fail
                        ELSE LET e  == SkipWs(txt, val.next)
                                 m2 == [m EXCEPT ![key.v[1]] = val.v]
                             IN  CASE At(txt, e) = "}" -> Done(Obj(m2), e + 1)
                                   [] At(txt, e) = "," ->
                                        ParseMembers(txt, SkipWs(txt, e + 1), m2)
                                   [] OTHER -> Fail

ParseValue(txt, i) ==
  IF At(txt, i) = "{"
  THEN LET j == SkipWs(txt, i + 1)
       IN  IF At(txt, j) = "}" THEN Done(EmptyObject, j + 1)
           ELSE ParseMembers(txt, j, EmptyObject.m)
  ELSE ParsePrim(txt, i)

\* JSON.parse: ok = FALSE stands for the SyntaxError it throws.  The texts of
\* the model hold flat objects over the tracked names and primitives.
JSONparse(txt) ==
  LET r == ParseValue(txt, SkipWs(txt, 1))
  IN  IF r.ok /\ SkipWs(txt, r.next) = Len(txt) + 1 THEN r ELSE Fail

(***************************************************************************)
(* The documents.  The markup of the five pages is not part of script.js;  *)
(* the elements are the ones the functions of script.js look up: a control *)
(* for every field (tracked under its own name), an error slot err-<id>    *)
(* for every field a validator reports on, and the elements the page 3 and *)
(* page 5 handlers address.                                                *)
(***************************************************************************)
Pages == {"page1.html", "page2.html", "page3.html", "page4.html", "page5.html"}

PageFields(p) ==
  CASE p = "page1.html" -> {"firstName", "lastName", "email", "phone",
                            "address1", "city", "state", "zip", "position"}
    [] p = "page2.html" -> {"degree"}
    [] p = "page3.html" -> {"licenseReq", "licenseNumber", "licenseIssue",
                            "licenseExpiry", "licenseState"}
    [] p = "page5.html" -> {"agree"}
    [] OTHER            -> {}

PageSlots(p) ==
  CASE p = "page1.html" -> {"err-" \o f : f \in PageFields(p)}
    [] p = "page2.html" -> {"err-degree"}
    [] p = "page3.html" -> {"err-license", "err-licenseNumber",
                            "err-licenseIssue", "err-licenseExpiry",
                            "err-licenseState", "err-experience"}
    [] OTHER            -> {}

PageOther(p) ==
  CASE p = "page3.html" -> {"licenseDetails"}
    [] p = "page5.html" -> {"success", "submitBtn"}
    [] OTHER            -> {}

Document(p) == PageFields(p) \cup PageSlots(p) \cup PageOther(p)

Slots == UNION {PageSlots(p) : p \in Pages}

\* el.type === 'checkbox'
ControlType(id) == IF id = "agree" THEN "checkbox" ELSE "text"

\* a control as the markup declares it: no text, not checked; a checkbox
\* without a value attribute has the value "on"
NewControl(id) ==
  [value |-> IF ControlType(id) = "checkbox" THEN <<"o", "n">> ELSE <<>>,
   checked |-> FALSE]

\* an error slot as the markup declares it: empty, hidden, no role
BlankSlot == [text |-> "", hidden |-> TRUE, role |-> ""]

VARIABLES
  storage,      \* sessionStorage.getItem(KEY): Null or the stored string
  storageFull,  \* TRUE when sessionStorage.setItem throws
  doc,          \* the page shown ("" before the first one)
  phase,        \* "leaving": a navigation is under way; "ready": page loaded
  location,     \* window.location.href
  missing,      \* ids the markup of the site fails to declare
  controls,     \* value and checked state of each control
  slots,        \* text, hidden class and role of each error slot
  hiddenEls,    \* which of licenseDetails and success carry class hidden
  disabled,     \* the submit control has the disabled attribute
  options,      \* option values of the state dropdown
  data,         \* the snapshot the change listeners of the page close over
  bound,        \* the change listeners are attached
  experiences,  \* what getExperiences() returns; Undefined: no such function
  alerts,       \* alert() messages raised by the last handler
  threw,        \* the last handler ended in an uncaught TypeError
  op,           \* the last handler that ran
  changed,      \* the name the last change listener wrote
  lastWritten,  \* per name, the value its last change listener wrote
  frozen,       \* the previous page as the back/forward cache keeps it
  edits,        \* number of user edits so far
  arg,          \* the argument of a function called on its own
  ret           \* what that call returned

vars ==
  <<storage, storageFull, doc, phase, location, missing, controls, slots,
    hiddenEls, disabled, options, data, bound, experiences, alerts, threw,
    op, changed, lastWritten, frozen, edits, arg, ret>>

(***************************************************************************)
(* Storage utilities                                                       *)
(***************************************************************************)
loadData(stored) ==
  IF Truthy(stored)
  THEN LET r == JSONparse(stored.s)
       IN  IF r.ok THEN r.v ELSE EmptyObject
  ELSE EmptyObject

\* the value of sessionStorage[KEY] after saveData(obj)
saveData(stored, full, obj) ==
  IF full THEN stored
  ELSE Str(JSONstringify(IF Truthy(obj) THEN obj ELSE EmptyObject))

\* a reader that falls back on the stored answer when the control is empty
getValueOrStored(els, ctl, id) ==
  IF id \notin els THEN <<>>
  ELSE IF ControlType(id) = "checkbox"
  THEN IF ctl[id].checked
       THEN (IF ctl[id].value # <<>> THEN ctl[id].value
             ELSE <<"t", "r", "u", "e">>)
       ELSE <<>>
  ELSE IF Trim(ctl[id].value) # <<>> THEN Trim(ctl[id].value)
  ELSE LET v == Get(loadData(storage), id)
       IN  IF v.t = "string" THEN Trim(v.s) ELSE <<>>

getValue(els, ctl, id) ==
  IF id \notin els THEN <<>>
  ELSE IF ControlType(id) = "checkbox"
  THEN IF ctl[id].checked
       THEN (IF ctl[id].value # <<>> THEN ctl[id].value
             ELSE <<"t", "r", "u", "e">>)
       ELSE <<>>
  ELSE Trim(ctl[id].value)

(***************************************************************************)
(* Error presenter                                                         *)
(***************************************************************************)
showError(els, sl, id, msg) ==
  IF id \in els
  THEN [sl EXCEPT ![id] = [text |-> msg, hidden |-> FALSE, role |-> "alert"]]
  ELSE sl

clearError(els, sl, id) ==
  IF id \in els
  THEN [sl EXCEPT ![id] = [text |-> "", hidden |-> TRUE, role |-> ""]]
  ELSE sl

(***************************************************************************)
(* Page load                                                               *)
(***************************************************************************)
\* the elements document.getElementById finds
elems == Document(doc) \ missing

states ==
  <<"Alabama", "Alaska", "Arizona", "Arkansas", "California",
    "Colorado", "Connecticut", "Delaware", "Florida", "Georgia",
    "Hawaii", "Idaho", "Illinois", "Indiana", "Iowa",
    "Kansas", "Kentucky", "Louisiana", "Maine", "Maryland",
    "Massachusetts", "Michigan", "Minnesota", "Mississippi", "Missouri",
    "Montana", "Nebraska", "Nevada", "New Hampshire", "New Jersey",
    "New Mexico", "New York", "North Carolina", "North Dakota", "Ohio",
    "Oklahoma", "Oregon", "Pennsylvania", "Rhode Island", "South Carolina",
    "South Dakota", "Tennessee", "Texas", "Utah", "Vermont",
    "Virginia", "Washington", "West Virginia", "Wisconsin", "Wyoming">>

\* the option values of the dropdown after initializeStates(selectId)
initializeStates(els, selectId, opts) ==
  IF selectId \notin els THEN opts ELSE <<"">> \o states

\* String(v), as the value setter of a control applies it
ToStr(v) ==
  CASE v.t = "string"  -> v.s
    [] v.t = "boolean" -> IF v.b THEN <<"t", "r", "u", "e">>
                          ELSE <<"f", "a", "l", "s", "e">>
    [] v.t = "number"  -> NumDigits(v.n)
    [] OTHER           -> <<>>

NoPage == [doc |-> ""]

\* the page as the back/forward cache keeps it when the browser leaves it
Freeze ==
  IF doc = "" THEN NoPage
  ELSE [doc |-> doc, controls |-> controls, slots |-> slots,
        hiddenEls |-> hiddenEls, disabled |-> disabled, options |-> options,
        data |-> data, bound |-> bound]

\* The browser shows page p: the markup is parsed, the script runs
\* initializeStates('state'), then the DOMContentLoaded listener runs.
DOMContentLoaded(p) ==
  /\ phase = "leaving"
  /\ location = p
  /\ data' = loadData(storage)
  /\ LET els     == Document(p) \ missing
         tracked == PageFields(p) \cap els
         throws  == tracked # {} /\ ~CanIndex(data')
         hydrate(id) ==
           IF id \in tracked /\ ~throws /\ Get(data', id) \notin {Null, Undefined}
           THEN IF ControlType(id) = "checkbox"
                THEN [NewControl(id) EXCEPT !.checked = Truthy(Get(data', id))]
                ELSE [NewControl(id) EXCEPT !.value = ToStr(Get(data', id))]
           ELSE NewControl(id)
     IN  /\ frozen' = Freeze
         /\ doc' = p
         /\ controls' = [id \in Names |-> hydrate(id)]
         /\ slots' = [id \in Slots |-> BlankSlot]
         /\ hiddenEls' = {"licenseDetails", "success"}
         /\ disabled' = FALSE
         /\ options' = initializeStates(els, "state", <<>>)
         /\ bound' = ~throws
         /\ threw' = throws
  /\ phase' = "ready"
  /\ alerts' = <<>>
  /\ op' = "DOMContentLoaded"
  /\ UNCHANGED <<arg, ret>>
  /\ UNCHANGED <<storage, storageFull, location, missing, experiences,
                 changed, lastWritten, edits>>

\* the user opens page p by its address
Open(p) ==
  /\ phase = "ready"
  /\ p # doc
  /\ location' = p
  /\ phase' = "leaving"
  /\ op' = "open"
  /\ UNCHANGED <<arg, ret>>
  /\ threw' = FALSE
  /\ alerts' = <<>>
  /\ UNCHANGED <<storage, storageFull, doc, missing, controls, slots,
                 hiddenEls, disabled, options, data, bound, experiences,
                 changed, lastWritten, frozen, edits>>

\* History back: the browser restores the previous page from its
\* back/forward cache, listeners and their snapshot included; no
\* DOMContentLoaded event is dispatched to a restored page.
Back ==
  /\ phase = "ready"
  /\ frozen # NoPage
  /\ doc' = frozen.doc
  /\ location' = frozen.doc
  /\ controls' = frozen.controls
  /\ slots' = frozen.slots
  /\ hiddenEls' = frozen.hiddenEls
  /\ disabled' = frozen.disabled
  /\ options' = frozen.options
  /\ data' = frozen.data
  /\ bound' = frozen.bound
  /\ frozen' = NoPage
  /\ op' = "back"
  /\ UNCHANGED <<arg, ret>>
  /\ threw' = FALSE
  /\ alerts' = <<>>
  /\ UNCHANGED <<storage, storageFull, phase, missing, experiences, changed,
                 lastWritten, edits>>

(***************************************************************************)
(* What the user types or picks                                            *)
(***************************************************************************)
Filled == <<"x">>

Blank == <<" ">>

Padded == <<" ", "x", " ">>

GoodEmail == <<"a", "@", "b", ".", "c", "d">>

NotAnEmail == <<"n", "o", "t", "-", "a", "n", "-", "e", "m", "a", "i", "l">>

ShortTld == <<"a", "@", "b", ".", "c">>

GoodPhone == <<"(", "5", "5", "5", ")", " ", "1", "2", "3", "-", "4", "5", "6", "7">>

PlainPhone == <<"5", "5", "5", "1", "2", "3", "4", "5", "6", "7">>

BadPhone == <<"1", "2", "3", "-", "4", "5", "6", "-", "7", "8", "9", "0">>

GoodZip == <<"1", "2", "3", "4", "5">>

ZipPlus4 == <<"1", "2", "3", "4", "5", "-", "6", "7", "8", "9">>

ShortZip == <<"1", "2", "3", "4">>

Yes == <<"y", "e", "s">>

No == <<"n", "o">>

January == <<"2", "0", "2", "4", "-", "0", "1", "-", "0", "1">>

May == <<"2", "0", "2", "4", "-", "0", "5", "-", "0", "1">>

\* a date control accepts years of more than four digits
Year10000 == <<"1", "0", "0", "0", "0", "-", "0", "1", "-", "0", "1">>

Inputs(id) ==
  CASE id = "email" -> {<<>>, GoodEmail, NotAnEmail, ShortTld}
    [] id = "phone" -> {<<>>, GoodPhone, PlainPhone, BadPhone}
    [] id = "zip"   -> {<<>>, GoodZip, ZipPlus4, ShortZip}
    [] id = "licenseReq" -> {<<>>, Yes, No}
    [] id \in {"licenseIssue", "licenseExpiry"} -> {<<>>, January, May, Year10000}
    [] id \in {"state", "position", "degree", "licenseState"} -> {<<>>, Filled}
    [] id = "agree" -> {<<"o", "n">>}
    [] OTHER -> {<<>>, Blank, Filled, Padded}

\* a snapshot with an answer to every question
FullAnswers ==
  [k \in Names |->
     CASE k = "email"         -> Str(GoodEmail)
       [] k = "phone"         -> Str(GoodPhone)
       [] k = "zip"           -> Str(GoodZip)
       [] k = "licenseReq"    -> Str(Yes)
       [] k = "licenseIssue"  -> Str(January)
       [] k = "licenseExpiry" -> Str(May)
       [] k = "agree"         -> Bool(TRUE)
       [] OTHER               -> Str(Filled)]

\* what the user enters while moving between the pages: one control of
\* each page that has controls
Typed(id) ==
  CASE id = "firstName"  -> {<<>>, Padded}
    [] id = "degree"     -> {<<>>, Filled}
    [] id = "licenseReq" -> {<<>>, No}
    [] id = "agree"      -> {<<"o", "n">>}
    [] OTHER             -> {}

MaxEdits == 2

(***************************************************************************)
(* Autosave binder: the change listener of a tracked control               *)
(***************************************************************************)
\* The user edits control id (new text v, or a click on a checkbox) and the
\* browser dispatches the change event.
change(id, v) ==
  /\ phase = "ready"
  /\ id \in PageFields(doc) \cap elems
  /\ IF ControlType(id) = "checkbox"
     THEN /\ controls' = [controls EXCEPT ![id].checked = ~controls[id].checked]
     ELSE /\ v # controls[id].value
          /\ controls' = [controls EXCEPT ![id].value = v]
  /\ IF bound
     THEN LET w == IF ControlType(id) = "checkbox"
                   THEN Bool(controls'[id].checked)
                   ELSE Str(controls'[id].value)
          IN  /\ data' = Put(data, id, w)
              /\ storage' = saveData(storage, storageFull, data')
              /\ changed' = id
              /\ lastWritten' = [lastWritten EXCEPT ![id] = w]
     ELSE UNCHANGED <<data, storage, changed, lastWritten>>
  /\ edits' = edits + 1
  /\ op' = "change"
  /\ UNCHANGED <<arg, ret>>
  /\ threw' = FALSE
  /\ alerts' = <<>>
  /\ UNCHANGED <<storageFull, doc, phase, location, missing, slots,
                 hiddenEls, disabled, options, bound, experiences, frozen>>

(***************************************************************************)
(* Page 1                                                                  *)
(***************************************************************************)
\* the list with the format check of the ZIP code left out
requiredFieldsZipUnchecked ==
  <<[id |-> "firstName", msg |-> "First name is required.", validator |-> ""],
    [id |-> "lastName", msg |-> "Last name is required.", validator |-> ""],
    [id |-> "email", msg |-> "Valid email is required.", validator |-> "emailValid"],
    [id |-> "phone", msg |-> "Valid phone number is required.", validator |-> "phoneValid"],
    [id |-> "address1", msg |-> "Street address is required.", validator |-> ""],
    [id |-> "city", msg |-> "City is required.", validator |-> ""],
    [id |-> "state", msg |-> "State is required.", validator |-> ""],
    [id |-> "zip", msg |-> "Valid 5-digit ZIP code is required.", validator |-> ""],
    [id |-> "position", msg |-> "Please select a position.", validator |-> ""]>>

requiredFields ==
  <<[id |-> "firstName", msg |-> "First name is required.", validator |-> ""],
    [id |-> "lastName", msg |-> "Last name is required.", validator |-> ""],
    [id |-> "email", msg |-> "Valid email is required.", validator |-> "emailValid"],
    [id |-> "phone", msg |-> "Valid phone number is required.", validator |-> "phoneValid"],
    [id |-> "address1", msg |-> "Street address is required.", validator |-> ""],
    [id |-> "city", msg |-> "City is required.", validator |-> ""],
    [id |-> "state", msg |-> "State is required.", validator |-> ""],
    [id |-> "zip", msg |-> "Valid 5-digit ZIP code is required.", validator |-> "zipValid"],
    [id |-> "position", msg |-> "Please select a position.", validator |-> ""]>>

\* validator(value) for the validator a field names
Passes(validator, value) ==
  CASE validator = "emailValid" -> emailValid(value)
    [] validator = "phoneValid" -> phoneValid(value)
    [] validator = "zipValid"   -> zipValid(value)
    [] OTHER                    -> TRUE

\* a loop that stops at the first field that fails
RECURSIVE checkRequiredShortCircuit(_, _, _, _)
checkRequiredShortCircuit(els, ctl, i, acc) ==
  IF i > Len(requiredFields) THEN acc
  ELSE LET f       == requiredFields[i]
           cleared == clearError(els, acc.slots, "err-" \o f.id)
           value   == getValue(els, ctl, f.id)
       IN  IF value = <<>> \/ (f.validator # "" /\ ~Passes(f.validator, value))
           THEN [slots |-> showError(els, cleared, "err-" \o f.id, f.msg),
                 isValid |-> FALSE]
           ELSE checkRequiredShortCircuit(els, ctl, i + 1,
                  [slots |-> cleared, isValid |-> acc.isValid])

\* the forEach of validatePage1 from field i on; acc = [slots, isValid]
RECURSIVE checkRequired(_, _, _, _)
checkRequired(els, ctl, i, acc) ==
  IF i > Len(requiredFields) THEN acc
  ELSE LET f       == requiredFields[i]
           cleared == clearError(els, acc.slots, "err-" \o f.id)
           value   == getValue(els, ctl, f.id)
       IN  IF value = <<>> \/ (f.validator # "" /\ ~Passes(f.validator, value))
           THEN checkRequired(els, ctl, i + 1,
                  [slots |-> showError(els, cleared, "err-" \o f.id, f.msg),
                   isValid |-> FALSE])
           ELSE checkRequired(els, ctl, i + 1,
                  [slots |-> cleared, isValid |-> acc.isValid])

\* location and phase after a validator that navigates to target when ok
Navigate(ok, target) ==
  IF ok THEN location' = target /\ phase' = "leaving"
  ELSE UNCHANGED <<location, phase>>

validatePage1 ==
  /\ phase = "ready"
  /\ doc = "page1.html"
  /\ LET r == checkRequired(elems, controls, 1, [slots |-> slots, isValid |-> TRUE])
     IN  /\ slots' = r.slots
         /\ Navigate(r.isValid, "page2.html")
  /\ op' = "validatePage1"
  /\ UNCHANGED <<arg, ret>>
  /\ threw' = FALSE
  /\ alerts' = <<>>
  /\ UNCHANGED <<storage, storageFull, doc, missing, controls, hiddenEls,
                 disabled, options, data, bound, experiences, changed,
                 lastWritten, frozen, edits>>

(***************************************************************************)
(* Page 2                                                                  *)
(***************************************************************************)
\* a validator that clears the slot and goes on without looking at degree
validatePage2NoCheck ==
  /\ phase = "ready"
  /\ doc = "page2.html"
  /\ slots' = clearError(elems, slots, "err-degree")
  /\ Navigate(TRUE, "page3.html")
  /\ op' = "validatePage2"
  /\ UNCHANGED <<arg, ret>>
  /\ threw' = FALSE
  /\ alerts' = <<>>
  /\ UNCHANGED <<storage, storageFull, doc, missing, controls, hiddenEls,
                 disabled, options, data, bound, experiences, changed,
                 lastWritten, frozen, edits>>

validatePage2 ==
  /\ phase = "ready"
  /\ doc = "page2.html"
  /\ LET cleared == clearError(elems, slots, "err-degree")
         isValid == getValue(elems, controls, "degree") # <<>>
     IN  /\ slots' = IF isValid THEN cleared
                     ELSE showError(elems, cleared, "err-degree",
                                    "Please choose your highest degree.")
         /\ Navigate(isValid, "page3.html")
  /\ op' = "validatePage2"
  /\ UNCHANGED <<arg, ret>>
  /\ threw' = FALSE
  /\ alerts' = <<>>
  /\ UNCHANGED <<storage, storageFull, doc, missing, controls, hiddenEls,
                 disabled, options, data, bound, experiences, changed,
                 lastWritten, frozen, edits>>

(***************************************************************************)
(* Page 3                                                                  *)
(***************************************************************************)
requiredLicenseFields ==
  <<[id |-> "licenseNumber", msg |-> "License number is required."],
    [id |-> "licenseIssue", msg |-> "Issue date is required."],
    [id |-> "licenseExpiry", msg |-> "Expiry date is required."],
    [id |-> "licenseState", msg |-> "Issuing state is required."]>>

RECURSIVE clearLicenseErrors(_, _, _)
clearLicenseErrors(els, sl, i) ==
  IF i > Len(requiredLicenseFields) THEN sl
  ELSE clearLicenseErrors(els,
         clearError(els, sl, "err-" \o requiredLicenseFields[i].id), i + 1)

\* the license details without the comparison of the two dates
validateLicenseDetailsNoDateOrder(els, ctl, sl) ==
  LET licenseNumber == getValue(els, ctl, "licenseNumber")
      issueDate     == getValue(els, ctl, "licenseIssue")
      expiryDate    == getValue(els, ctl, "licenseExpiry")
      licenseState  == getValue(els, ctl, "licenseState")
      s0 == clearLicenseErrors(els, sl, 1)
      s1 == IF licenseNumber = <<>>
            THEN showError(els, s0, "err-licenseNumber", "License number is required.")
            ELSE s0
      s2 == IF issueDate = <<>>
            THEN showError(els, s1, "err-licenseIssue", "Issue date is required.")
            ELSE s1
      s3 == IF expiryDate = <<>>
            THEN showError(els, s2, "err-licenseExpiry", "Expiry date is required.")
            ELSE s2
      s4 == IF licenseState = <<>>
            THEN showError(els, s3, "err-licenseState", "Issuing state is required.")
            ELSE s3
  IN  [slots |-> s4,
       isValid |-> /\ licenseNumber # <<>>
                   /\ issueDate # <<>>
                   /\ expiryDate # <<>>
                   /\ licenseState # <<>>]

\* result [slots, isValid]
validateLicenseDetails(els, ctl, sl) ==
  LET licenseNumber == getValue(els, ctl, "licenseNumber")
      issueDate     == getValue(els, ctl, "licenseIssue")
      expiryDate    == getValue(els, ctl, "licenseExpiry")
      licenseState  == getValue(els, ctl, "licenseState")
      s0 == clearLicenseErrors(els, sl, 1)
      s1 == IF licenseNumber = <<>>
            THEN showError(els, s0, "err-licenseNumber", "License number is required.")
            ELSE s0
      s2 == IF issueDate = <<>>
            THEN showError(els, s1, "err-licenseIssue", "Issue date is required.")
            ELSE s1
      s3 == IF expiryDate = <<>>
            THEN showError(els, s2, "err-licenseExpiry", "Expiry date is required.")
            ELSE s2
      s4 == IF licenseState = <<>>
            THEN showError(els, s3, "err-licenseState", "Issuing state is required.")
            ELSE s3
      order == issueDate # <<>> /\ expiryDate # <<>> /\ StrLess(expiryDate, issueDate)
      s5 == IF order
            THEN showError(els, s4, "err-licenseExpiry",
                           "Expiry date must be after issue date.")
            ELSE s4
  IN  [slots |-> s5,
       isValid |-> /\ licenseNumber # <<>>
                   /\ issueDate # <<>>
                   /\ expiryDate # <<>>
                   /\ licenseState # <<>>
                   /\ ~order]

\* an array, as getExperiences() returns it
Array(a) == [t |-> "array", a |-> a]

\* the text, class and role of err-experience when an entry fails
experienceError(sl, msg) ==
  [sl EXCEPT !["err-experience"] =
     [text |-> msg, hidden |-> FALSE, role |-> "alert"]]

\* a loop that checks employer and job title but not the dates
RECURSIVE checkExperiencesNoDates(_, _, _)
checkExperiencesNoDates(sl, list, i) ==
  IF ~(i < Len(list)) THEN [slots |-> sl, isValid |-> TRUE, threw |-> FALSE]
  ELSE LET exp == list[i + 1]
           hasAnyField == \/ exp.employer # <<>>
                          \/ exp.jobTitle # <<>>
                          \/ exp.startDate # <<>>
                          \/ exp.endDate # <<>>
                          \/ exp.duties # <<>>
       IN  IF hasAnyField /\ (exp.employer = <<>> \/ exp.jobTitle = <<>>)
           THEN [slots |-> experienceError(sl,
                   "Each work experience must include Employer and Job Title."),
                 isValid |-> FALSE, threw |-> FALSE]
           ELSE checkExperiencesNoDates(sl, list, i + 1)

\* a loop that reports the index of the entry instead of its position
RECURSIVE checkExperiencesZeroBased(_, _, _)
checkExperiencesZeroBased(sl, list, i) ==
  IF ~(i < Len(list)) THEN [slots |-> sl, isValid |-> TRUE, threw |-> FALSE]
  ELSE LET exp == list[i + 1]
           hasAnyField == \/ exp.employer # <<>>
                          \/ exp.jobTitle # <<>>
                          \/ exp.startDate # <<>>
                          \/ exp.endDate # <<>>
                          \/ exp.duties # <<>>
       IN  IF hasAnyField /\ (exp.employer = <<>> \/ exp.jobTitle = <<>>)
           THEN [slots |-> experienceError(sl,
                   "Each work experience must include Employer and Job Title."),
                 isValid |-> FALSE, threw |-> FALSE]
           ELSE IF /\ exp.startDate # <<>>
                   /\ exp.endDate # <<>>
                   /\ StrLess(exp.endDate, exp.startDate)
           THEN [slots |-> experienceError(sl,
                   "Experience #" \o ToString(i)
                     \o ": End Date must be after Start Date."),
                 isValid |-> FALSE, threw |-> FALSE]
           ELSE checkExperiencesZeroBased(sl, list, i + 1)

\* the for loop of validateWorkExperience from index i (0-based) on
RECURSIVE checkExperiences(_, _, _)
checkExperiences(sl, list, i) ==
  IF ~(i < Len(list)) THEN [slots |-> sl, isValid |-> TRUE, threw |-> FALSE]
  ELSE LET exp == list[i + 1]
           hasAnyField == \/ exp.employer # <<>>
                          \/ exp.jobTitle # <<>>
                          \/ exp.startDate # <<>>
                          \/ exp.endDate # <<>>
                          \/ exp.duties # <<>>
       IN  IF hasAnyField /\ (exp.employer = <<>> \/ exp.jobTitle = <<>>)
           THEN [slots |-> experienceError(sl,
                   "Each work experience must include Employer and Job Title."),
                 isValid |-> FALSE, threw |-> FALSE]
           ELSE IF /\ exp.startDate # <<>>
                   /\ exp.endDate # <<>>
                   /\ StrLess(exp.endDate, exp.startDate)
           THEN [slots |-> experienceError(sl,
                   "Experience #" \o ToString(i + 1)
                     \o ": End Date must be after Start Date."),
                 isValid |-> FALSE, threw |-> FALSE]
           ELSE checkExperiences(sl, list, i + 1)

\* result [slots, isValid, threw]; threw: expError is null and the first
\* statement that uses it raises a TypeError
validateWorkExperience(els, sl, exps) ==
  IF "err-experience" \notin els
  THEN [slots |-> sl, isValid |-> FALSE, threw |-> TRUE]
  ELSE LET s0 == [sl EXCEPT !["err-experience"].text = "",
                            !["err-experience"].hidden = TRUE]
       IN  IF exps = Undefined
           THEN [slots |-> s0, isValid |-> TRUE, threw |-> FALSE]
           ELSE checkExperiences(s0, exps.a, 0)

validatePage3 ==
  /\ phase = "ready"
  /\ doc = "page3.html"
  /\ LET s0         == clearError(elems, slots, "err-license")
         licenseReq == getValue(elems, controls, "licenseReq")
         s1 == IF licenseReq = <<>>
               THEN showError(elems, s0, "err-license",
                              "Please answer the driver's license question.")
               ELSE s0
         lic == IF licenseReq = Yes
                THEN validateLicenseDetails(elems, controls, s1)
                ELSE [slots |-> s1, isValid |-> licenseReq # <<>>]
         exp == validateWorkExperience(elems, lic.slots, experiences)
     IN  /\ slots' = exp.slots
         /\ threw' = exp.threw
         /\ Navigate(~exp.threw /\ exp.isValid /\ lic.isValid, "page4.html")
  /\ op' = "validatePage3"
  /\ UNCHANGED <<arg, ret>>
  /\ alerts' = <<>>
  /\ UNCHANGED <<storage, storageFull, doc, missing, controls, hiddenEls,
                 disabled, options, data, bound, experiences, changed,
                 lastWritten, frozen, edits>>

toggleLicenseDetails ==
  /\ phase = "ready"
  /\ doc = "page3.html"
  /\ LET shouldShow == "licenseReq" \in elems /\ controls["licenseReq"].value = Yes
     IN  hiddenEls' = IF "licenseDetails" \notin elems THEN hiddenEls
                      ELSE IF shouldShow THEN hiddenEls \ {"licenseDetails"}
                      ELSE hiddenEls \cup {"licenseDetails"}
  /\ op' = "toggleLicenseDetails"
  /\ UNCHANGED <<arg, ret>>
  /\ threw' = FALSE
  /\ alerts' = <<>>
  /\ UNCHANGED <<storage, storageFull, doc, phase, location, missing,
                 controls, slots, disabled, options, data, bound, experiences,
                 changed, lastWritten, frozen, edits>>

(***************************************************************************)
(* Page 4                                                                  *)
(***************************************************************************)
validatePage4 ==
  /\ phase = "ready"
  /\ doc = "page4.html"
  /\ Navigate(TRUE, "page5.html")
  /\ op' = "validatePage4"
  /\ UNCHANGED <<arg, ret>>
  /\ threw' = FALSE
  /\ alerts' = <<>>
  /\ UNCHANGED <<storage, storageFull, doc, missing, controls, slots,
                 hiddenEls, disabled, options, data, bound, experiences,
                 changed, lastWritten, frozen, edits>>

(***************************************************************************)
(* Page 5: submission                                                      *)
(***************************************************************************)
\* the list with position left out
criticalFieldsWithoutPosition ==
  <<"firstName", "lastName", "email", "phone", "address1", "city", "state",
    "zip", "degree", "licenseReq">>

\* the requiredFields of submitApp
criticalFields ==
  <<"firstName", "lastName", "email", "phone", "address1", "city", "state",
    "zip", "position", "degree", "licenseReq">>

\* index of the last field of the list that the snapshot lacks, 0 when
\* there is none
RECURSIVE lastMissing(_, _)
lastMissing(d, i) ==
  IF i > Len(criticalFields) THEN 0
  ELSE LET rest == lastMissing(d, i + 1)
       IN  IF rest # 0 THEN rest
           ELSE IF ~Truthy(Get(d, criticalFields[i])) THEN i
           ELSE 0

\* index of the first field of the list from i on that the snapshot lacks,
\* 0 when there is none
RECURSIVE firstMissing(_, _)
firstMissing(d, i) ==
  IF i > Len(criticalFields) THEN 0
  ELSE IF ~Truthy(Get(d, criticalFields[i])) THEN i
  ELSE firstMissing(d, i + 1)

\* a handler that flips the indicator and the control instead of setting them
submitAppToggles ==
  /\ phase = "ready"
  /\ doc = "page5.html"
  /\ LET d == loadData(storage)
         m == firstMissing(d, 1)
     IN  IF ~CanIndex(d)
         THEN /\ threw' = TRUE
              /\ alerts' = <<>>
              /\ UNCHANGED <<hiddenEls, disabled>>
         ELSE IF m # 0
         THEN /\ threw' = FALSE
              /\ alerts' = <<"Please complete all required fields before submitting.\n\nMissing or incomplete: "
                               \o criticalFields[m]>>
              /\ UNCHANGED <<hiddenEls, disabled>>
         ELSE IF ~Truthy(Get(d, "agree"))
         THEN /\ threw' = FALSE
              /\ alerts' = <<"You must agree to the application acknowledgement.">>
              /\ UNCHANGED <<hiddenEls, disabled>>
         ELSE /\ threw' = FALSE
              /\ alerts' = <<>>
              /\ hiddenEls' = IF "success" \in hiddenEls
                              THEN hiddenEls \ ({"success"} \cap elems)
                              ELSE hiddenEls \cup ({"success"} \cap elems)
              /\ disabled' = IF "submitBtn" \in elems THEN ~disabled ELSE disabled
  /\ op' = "submitApp"
  /\ UNCHANGED <<arg, ret>>
  /\ UNCHANGED <<storage, storageFull, doc, phase, location, missing,
                 controls, slots, options, data, bound, experiences, changed,
                 lastWritten, frozen, edits>>

submitApp ==
  /\ phase = "ready"
  /\ doc = "page5.html"
  /\ LET d == loadData(storage)
         m == firstMissing(d, 1)
     IN  IF ~CanIndex(d)
         THEN /\ threw' = TRUE
              /\ alerts' = <<>>
              /\ UNCHANGED <<hiddenEls, disabled>>
         ELSE IF m # 0
         THEN /\ threw' = FALSE
              /\ alerts' = <<"Please complete all required fields before submitting.\n\nMissing or incomplete: "
                               \o criticalFields[m]>>
              /\ UNCHANGED <<hiddenEls, disabled>>
         ELSE IF ~Truthy(Get(d, "agree"))
         THEN /\ threw' = FALSE
              /\ alerts' = <<"You must agree to the application acknowledgement.">>
              /\ UNCHANGED <<hiddenEls, disabled>>
         ELSE /\ threw' = FALSE
              /\ alerts' = <<>>
              /\ hiddenEls' = hiddenEls \ ({"success"} \cap elems)
              /\ disabled' = (disabled \/ "submitBtn" \in elems)
  /\ op' = "submitApp"
  /\ UNCHANGED <<arg, ret>>
  /\ UNCHANGED <<storage, storageFull, doc, phase, location, missing,
                 controls, slots, options, data, bound, experiences, changed,
                 lastWritten, frozen, edits>>

(***************************************************************************)
(* Autosave across pages: the user opens a page of a fresh tab or of a tab *)
(* that already holds a full set of answers, edits controls, moves to      *)
(* other pages and back.                                                   *)
(***************************************************************************)
\* a tab in which no page has been loaded yet
NoDocument ==
  /\ doc = ""
  /\ phase = "leaving"
  /\ controls = [id \in Names |-> NewControl(id)]
  /\ slots = [id \in Slots |-> BlankSlot]
  /\ hiddenEls = {}
  /\ disabled = FALSE
  /\ options = <<>>
  /\ data = EmptyObject
  /\ bound = FALSE
  /\ alerts = <<>>
  /\ threw = FALSE
  /\ op = ""
  /\ changed = ""
  /\ lastWritten = [k \in Names |-> Undefined]
  /\ frozen = NoPage
  /\ edits = 0

\* no function has been called on its own
NoCall == arg = <<>> /\ ret = Undefined

Init ==
  /\ NoDocument
  /\ NoCall
  /\ storage \in {Null, Str(JSONstringify(Obj(FullAnswers)))}
  /\ storageFull = FALSE
  /\ location \in Pages
  /\ missing = {}
  /\ experiences = Array(<<>>)

\* the user edits one of the controls of Typed
TypeAcrossPages ==
  \E id \in Names : \E v \in Typed(id) : edits < MaxEdits /\ change(id, v)

\* the user edits any control of the page shown
TypeOnPage ==
  \E id \in Names : \E v \in Inputs(id) : edits < MaxEdits /\ change(id, v)

Next ==
  \/ \E p \in Pages : DOMContentLoaded(p)
  \/ \E p \in Pages : Open(p)
  \/ Back
  \/ TypeAcrossPages

Spec == Init /\ [][Next]_vars

(***************************************************************************)
(* Claims about autosave                                                   *)
(***************************************************************************)
\* the value the store holds for name k
Stored(st, k) == Get(loadData(st), k)

\* control id shows the value w
Shows(ctl, id, w) ==
  IF ControlType(id) = "checkbox"
  THEN ctl[id].checked = Truthy(w)
  ELSE ctl[id].value = ToStr(w)

\* C1: answers persist across page navigations: when a page has just been
\* loaded, every tracked control of it whose name a change listener wrote
\* before shows the value that the last such listener wrote.
C1_AnswersPersist ==
  (op = "DOMContentLoaded") =>
     \A id \in PageFields(doc) \cap elems :
        lastWritten[id] # Undefined => Shows(controls, id, lastWritten[id])

\* C2: the store accumulates: the write of a change listener for name k
\* changes the stored value of k only; every other name keeps the value the
\* store held just before the write.
C2_StoreAccumulates ==
  [][(op' = "change" /\ storage' # storage) =>
        \A k \in Names \ {changed'} : Stored(storage', k) = Stored(storage, k)]_vars

(***************************************************************************)
(* Page 1 on its own: the page is loaded in a fresh tab or in a tab that   *)
(* holds a full set of answers; the user edits and asks for the next page. *)
(***************************************************************************)
FullStore == Str(JSONstringify(Obj(FullAnswers)))

InitPage1 ==
  /\ NoDocument
  /\ NoCall
  /\ storage \in {Null, FullStore}
  /\ storageFull = FALSE
  /\ location = "page1.html"
  /\ missing = {}
  /\ experiences = Undefined

NextPage1 ==
  \/ DOMContentLoaded("page1.html")
  \/ TypeOnPage
  \/ validatePage1

SpecPage1 == InitPage1 /\ [][NextPage1]_vars

\* the trimmed text of control id
Text(id) == Trim(controls[id].value)

Page1Ids ==
  {"firstName", "lastName", "email", "phone", "address1", "city", "state",
   "zip", "position"}

\* control id of page 1 is filled in and well-formed
Page1FieldOk(id) ==
  /\ Text(id) # <<>>
  /\ id = "email" => emailValid(Text(id))
  /\ id = "phone" => phoneValid(Text(id))
  /\ id = "zip" => zipValid(Text(id))

\* C3: validatePage1 navigates to page2.html if and only if all nine
\* controls have a non-empty trimmed value and email, phone and zip pass
\* their format validators; otherwise no navigation happens.
C3_Page1NavigatesIffValid ==
  (op = "validatePage1") =>
     IF \A id \in Page1Ids : Page1FieldOk(id)
     THEN phase = "leaving" /\ location = "page2.html"
     ELSE phase = "ready" /\ location = "page1.html"

C3_Witness ==
  /\ op = "validatePage1"
  /\ location = "page2.html"
  /\ edits > 0
  /\ controls["zip"].value = ZipPlus4

Shown(slot, msg) == slots[slot] = [text |-> msg, hidden |-> FALSE, role |-> "alert"]

Cleared(slot) == slots[slot].text = "" /\ slots[slot].hidden

\* C4: validatePage1 does not short-circuit: after a call, each of the nine
\* slots err-<field> shows the message of its field exactly when the field
\* is empty or fails its format check, and is empty and hidden otherwise.
C4_Page1ReportsEveryField ==
  (op = "validatePage1") =>
     /\ \A i \in 1..Len(requiredFields) :
           LET f == requiredFields[i]
           IN  IF Page1FieldOk(f.id)
               THEN Cleared("err-" \o f.id)
               ELSE Shown("err-" \o f.id, f.msg)
     /\ ~Page1FieldOk("email") => Shown("err-email", "Valid email is required.")
     /\ {requiredFields[i].id : i \in 1..Len(requiredFields)} = Page1Ids

\* two fields fail in the same pass while the others are reported as valid
C4_Witness ==
  /\ op = "validatePage1"
  /\ Shown("err-firstName", "First name is required.")
  /\ Shown("err-zip", "Valid 5-digit ZIP code is required.")
  /\ Cleared("err-email")
  /\ edits = MaxEdits

(***************************************************************************)
(* Page 3, license questions: loaded in a fresh tab or over a full set of  *)
(* answers, with no experience function, no entry or one incomplete entry. *)
(***************************************************************************)
Entry(employer, jobTitle, startDate, endDate, duties) ==
  [employer |-> employer, jobTitle |-> jobTitle, startDate |-> startDate,
   endDate |-> endDate, duties |-> duties]

OnlyDuties == Entry(<<>>, <<>>, <<>>, <<>>, Filled)

InitLicense ==
  /\ NoDocument
  /\ NoCall
  /\ storage \in {Null, FullStore}
  /\ storageFull = FALSE
  /\ location = "page3.html"
  /\ missing = {}
  /\ experiences \in {Undefined, Array(<<>>), Array(<<OnlyDuties>>)}

NextLicense ==
  \/ DOMContentLoaded("page3.html")
  \/ TypeOnPage
  \/ validatePage3
  \/ toggleLicenseDetails

SpecLicense == InitLicense /\ [][NextLicense]_vars

Navigated(target) == phase = "leaving" /\ location = target

\* an entry breaks the rules of a work experience
Violates(e) ==
  \/ /\ \/ e.employer # <<>>
        \/ e.jobTitle # <<>>
        \/ e.startDate # <<>>
        \/ e.endDate # <<>>
        \/ e.duties # <<>>
     /\ e.employer = <<>> \/ e.jobTitle = <<>>
  \/ e.startDate # <<>> /\ e.endDate # <<>> /\ StrLess(e.endDate, e.startDate)

\* no experience function, or a list without an entry that breaks the rules
ExperiencesOk ==
  experiences # Undefined =>
     \A i \in 1..Len(experiences.a) : ~Violates(experiences.a[i])

LicenseDetailIds == {"licenseNumber", "licenseIssue", "licenseExpiry", "licenseState"}

ExpiryBeforeIssue ==
  /\ Text("licenseIssue") # <<>>
  /\ Text("licenseExpiry") # <<>>
  /\ StrLess(Text("licenseExpiry"), Text("licenseIssue"))

\* C5: validatePage3 navigates to page4.html only if licenseReq is non-empty
\* and, when it is "yes", the four license details are non-empty and the
\* expiry date is not lexically earlier than the issue date; with "yes" and
\* an expiry date earlier than the issue date err-licenseExpiry shows the
\* date message and navigation is blocked; with a non-empty answer other
\* than "yes" the license details do not affect the outcome.
C5_LicenseRules ==
  (op = "validatePage3") =>
     /\ Navigated("page4.html") =>
          /\ Text("licenseReq") # <<>>
          /\ Text("licenseReq") = Yes =>
               /\ \A id \in LicenseDetailIds : Text(id) # <<>>
               /\ ~StrLess(Text("licenseExpiry"), Text("licenseIssue"))
     /\ (Text("licenseReq") = Yes /\ ExpiryBeforeIssue) =>
          /\ Shown("err-licenseExpiry", "Expiry date must be after issue date.")
          /\ ~Navigated("page4.html")
     /\ Text("licenseReq") \notin {<<>>, Yes} =>
          (Navigated("page4.html") <=> ExperiencesOk)

C5_Witness ==
  /\ op = "validatePage3"
  /\ Text("licenseReq") = Yes
  /\ Text("licenseIssue") = May
  /\ Text("licenseExpiry") = January
  /\ ~slots["err-licenseExpiry"].hidden

\* slot shows a message
HasMessage(slot) == slots[slot].text # ""

\* C14: the error state of page 3 is recomputed from scratch by every
\* validatePage3: after a pass, each of err-license, the four license
\* detail slots and err-experience shows a message only if its check failed
\* in that pass; no message of an earlier pass survives.
C14_Page3Recomputed ==
  (op = "validatePage3") =>
     /\ HasMessage("err-license") => Text("licenseReq") = <<>>
     /\ \A id \in LicenseDetailIds :
           HasMessage("err-" \o id) =>
              /\ Text("licenseReq") = Yes
              /\ \/ Text(id) = <<>>
                 \/ id = "licenseExpiry" /\ ExpiryBeforeIssue
     /\ HasMessage("err-experience") => ~ExperiencesOk

(***************************************************************************)
(* Page 3, work experience: every list of up to MaxEntries entries, over a *)
(* valid license answer and over a missing one.                            *)
(***************************************************************************)
MaxEntries == 2

ExperienceDates == {<<<<>>, <<>>>>, <<January, May>>, <<May, January>>, <<May, <<>>>>}

ExperienceEntries ==
  {Entry(e, j, d[1], d[2], t) :
     e \in {<<>>, Filled}, j \in {<<>>, Filled}, d \in ExperienceDates,
     t \in {<<>>, Filled}}

ExperienceLists == UNION {[1..n -> ExperienceEntries] : n \in 0..MaxEntries}

InitExperience ==
  /\ NoDocument
  /\ NoCall
  /\ storage \in {Null, FullStore}
  /\ storageFull = FALSE
  /\ location = "page3.html"
  /\ missing = {}
  /\ \E list \in ExperienceLists : experiences = Array(list)

NextExperience ==
  \/ DOMContentLoaded("page3.html")
  \/ validatePage3

SpecExperience == InitExperience /\ [][NextExperience]_vars

\* the license part of page 3 is in order
LicenseOk ==
  /\ Text("licenseReq") # <<>>
  /\ Text("licenseReq") = Yes =>
       /\ \A id \in LicenseDetailIds : Text(id) # <<>>
       /\ ~ExpiryBeforeIssue

\* C6: for every list getExperiences returns, validatePage3 blocks
\* navigation and shows an experience error if some entry has a field
\* filled but lacks employer or job title, or has an end date earlier than
\* its start date; a list without such an entry never blocks navigation by
\* itself.
C6_ExperienceRules ==
  (op = "validatePage3") =>
     IF ExperiencesOk
     THEN Navigated("page4.html") <=> LicenseOk
     ELSE /\ ~Navigated("page4.html")
          /\ slots["err-experience"].text # ""
          /\ ~slots["err-experience"].hidden

\* the second entry of a list is the one that fails
C6_Witness ==
  /\ op = "validatePage3"
  /\ Len(experiences.a) = 2
  /\ ~Violates(experiences.a[1])
  /\ experiences.a[2] = OnlyDuties
  /\ LicenseOk
  /\ ~slots["err-experience"].hidden

\* an entry with a field filled in lacks employer or job title
LacksEmployerOrTitle(e) ==
  /\ \/ e.employer # <<>>
     \/ e.jobTitle # <<>>
     \/ e.startDate # <<>>
     \/ e.endDate # <<>>
     \/ e.duties # <<>>
  /\ e.employer = <<>> \/ e.jobTitle = <<>>

\* position (1-based) of the first entry of the list that breaks a rule
FirstViolation ==
  CHOOSE n \in 1..Len(experiences.a) :
     /\ Violates(experiences.a[n])
     /\ \A k \in 1..(n - 1) : ~Violates(experiences.a[k])

\* the texts of the two rules
RuleTexts ==
  {"Each work experience must include Employer and Job Title.",
   "End Date must be after Start Date."}

\* text names entry number n the way the script numbers entries
Identifies(text, n) ==
  \E r \in RuleTexts : text = "Experience #" \o ToString(n) \o ": " \o r

\* C15 as stated: whenever validateWorkExperience fails on an entry, for
\* either rule, the message in err-experience identifies the 1-based
\* position of that entry, which is the first failing entry of the list.
C15_EveryFailureNumbered ==
  (op = "validatePage3" /\ ~ExperiencesOk) =>
     Identifies(slots["err-experience"].text, FirstViolation)

\* C15 as amended: validateWorkExperience fails on the first entry in list
\* order that breaks a rule; when that entry breaks the date-order rule
\* only, the message identifies its 1-based position; when it lacks
\* employer or job title, the message is the general one, without a number.
C15_FirstFailureReported ==
  (op = "validatePage3" /\ ~ExperiencesOk) =>
     /\ ~slots["err-experience"].hidden
     /\ slots["err-experience"].text =
          IF LacksEmployerOrTitle(experiences.a[FirstViolation])
          THEN "Each work experience must include Employer and Job Title."
          ELSE "Experience #" \o ToString(FirstViolation)
                 \o ": End Date must be after Start Date."

\* the first entry is in order, the second ends before it starts
C15_Witness ==
  /\ op = "validatePage3"
  /\ Len(experiences.a) >= 2
  /\ ~Violates(experiences.a[1])
  /\ experiences.a[1].employer # <<>>
  /\ experiences.a[2] = Entry(Filled, Filled, May, January, <<>>)
  /\ slots["err-experience"].text =
       "Experience #2: End Date must be after Start Date."

(***************************************************************************)
(* Page 5: the final page is opened over a snapshot in which up to         *)
(* MaxHoles of the answers the submission looks at are absent or empty;    *)
(* the user ticks or clears the agreement and submits.                     *)
(***************************************************************************)
MaxHoles == 2

GateNames ==
  {"firstName", "lastName", "email", "phone", "address1", "city", "state",
   "zip", "position", "degree", "licenseReq", "agree"}

\* what a change listener writes for a control left empty or unchecked
Emptied(k) == IF ControlType(k) = "checkbox" THEN Bool(FALSE) ELSE Str(<<>>)

\* the full answers without the names of K: absent where gone[k], else empty
WithHoles(K, gone) ==
  [k \in Names |->
     IF k \in K THEN (IF gone[k] THEN Undefined ELSE Emptied(k))
     ELSE FullAnswers[k]]

SubmitStores ==
  UNION {{Str(JSONstringify(Obj(WithHoles(K, gone)))) : gone \in [K -> BOOLEAN]} :
           K \in {H \in SUBSET GateNames : Cardinality(H) <= MaxHoles}}

InitSubmit ==
  /\ NoDocument
  /\ NoCall
  /\ storage \in {Null} \cup SubmitStores
  /\ storageFull = FALSE
  /\ location = "page5.html"
  /\ missing = {}
  /\ experiences = Undefined

NextSubmit ==
  \/ DOMContentLoaded("page5.html")
  \/ TypeOnPage
  \/ submitApp

SpecSubmit == InitSubmit /\ [][NextSubmit]_vars

\* the fixed order in which the submission looks at the required answers
GateOrder ==
  <<"firstName", "lastName", "email", "phone", "address1", "city", "state",
    "zip", "position", "degree", "licenseReq">>

\* the store holds a truthy value for the i-th required answer
Present(st, i) == Truthy(Stored(st, GateOrder[i]))

Complete(st) ==
  /\ \A i \in 1..Len(GateOrder) : Present(st, i)
  /\ Truthy(Stored(st, "agree"))

\* C7: submitApp reveals the success indicator and disables the submit
\* control if and only if the snapshot read from the store at the call
\* holds a truthy value for each of the eleven required fields and a truthy
\* agree flag; in every other case both are left unchanged.
C7_SubmitGate ==
  [][(op' = "submitApp") =>
        IF Complete(storage)
        THEN "success" \notin hiddenEls' /\ disabled'
        ELSE hiddenEls' = hiddenEls /\ disabled' = disabled]_vars

C7_Witness ==
  /\ op = "submitApp"
  /\ "success" \notin hiddenEls
  /\ disabled
  /\ edits > 0

MissingAlert(name) ==
  "Please complete all required fields before submitting.\n\nMissing or incomplete: "
    \o name

\* C8: when submitApp aborts it raises exactly one alert: it names the
\* first missing field in the fixed order if a required field is missing,
\* and is the agreement message only when all eleven fields are present and
\* agree is falsy.
C8_OneAlertFirstMissing ==
  (op = "submitApp") =>
     LET absent == {i \in 1..Len(GateOrder) : ~Present(storage, i)}
     IN  IF absent # {}
         THEN \E i \in absent :
                 /\ \A j \in absent : i <= j
                 /\ alerts = <<MissingAlert(GateOrder[i])>>
         ELSE IF ~Truthy(Stored(storage, "agree"))
         THEN alerts = <<"You must agree to the application acknowledgement.">>
         ELSE alerts = <<>>

\* two answers are missing and the alert names the earlier one
C8_Witness ==
  /\ op = "submitApp"
  /\ ~Truthy(Stored(storage, "city"))
  /\ ~Truthy(Stored(storage, "degree"))
  /\ alerts = <<MissingAlert("city")>>

\* the success indicator is visible and the submit control is disabled
Submitted == "success" \notin hiddenEls /\ disabled

\* C13: submission is permanent: once a submitApp call has succeeded, the
\* success indicator stays visible and the submit control stays disabled in
\* every later state of the page, whatever change events and further
\* submitApp calls follow.
C13_SubmissionPermanent == [][Submitted => Submitted']_vars

\* after a success the user clears the agreement and submits again: the
\* call aborts and the page still shows the success
C13_Witness ==
  /\ op = "submitApp"
  /\ alerts = <<"You must agree to the application acknowledgement.">>
  /\ ~controls["agree"].checked
  /\ Submitted

(***************************************************************************)
(* Any content of the storage key: the pages are opened in a tab whose     *)
(* storage holds no value, an empty string, text that is not JSON, JSON    *)
(* that is not an object, or a snapshot.                                   *)
(***************************************************************************)
RawContents ==
  {Null, Str(<<>>), Str(<<"{">>), Str(<<"x">>), Str(<<"null">>),
   Str(<<"5">>), Str(<<"0">>), Str(<<"\"", "x", "\"">>), Str(<<"true">>),
   Str(<<"{", "}">>), FullStore}

InitStore ==
  /\ NoDocument
  /\ NoCall
  /\ storage \in RawContents
  /\ storageFull = FALSE
  /\ location \in Pages
  /\ missing = {}
  /\ experiences = Array(<<>>)

NextStore ==
  \/ \E p \in Pages : DOMContentLoaded(p)
  \/ \E p \in Pages : Open(p)
  \/ TypeAcrossPages
  \/ submitApp

SpecStore == InitStore /\ [][NextStore]_vars

\* C9: loadData always returns a mapping, whatever the storage key holds,
\* so that neither the hydration at page load nor submitApp fails because
\* of the content of the store.
C9_LoadDataReturnsMapping ==
  /\ (op = "DOMContentLoaded") => (data.t = "object" /\ ~threw)
  /\ (op = "submitApp") => ~threw

(***************************************************************************)
(* Incomplete markup: up to MaxMissing of the elements of the page are not *)
(* in the document.                                                        *)
(***************************************************************************)
MaxMissing == 1

InitDom ==
  /\ NoDocument
  /\ NoCall
  /\ storage \in {Null, FullStore}
  /\ storageFull = FALSE
  /\ location \in Pages
  /\ missing \in {M \in SUBSET Document(location) : Cardinality(M) <= MaxMissing}
  /\ experiences \in {Undefined, Array(<<>>)}

NextDom ==
  \/ \E p \in Pages : DOMContentLoaded(p)
  \/ validatePage1
  \/ validatePage2
  \/ validatePage3
  \/ toggleLicenseDetails
  \/ validatePage4
  \/ submitApp

SpecDom == InitDom /\ [][NextDom]_vars

\* C10: every function that touches the DOM tolerates a missing element:
\* whichever elements are absent, the handlers complete without failing, and
\* validatePage3 reaches its navigation decision without err-experience.
C10_ToleratesMissingElements ==
  (op \in {"DOMContentLoaded", "validatePage1", "validatePage2",
           "validatePage3", "toggleLicenseDetails", "validatePage4",
           "submitApp"}) => ~threw

(***************************************************************************)
(* The format validators called on their own, on every string of a small   *)
(* alphabet up to a given length.                                          *)
(***************************************************************************)
\* a tab in which no page is loaded and nothing is stored
Idle ==
  /\ NoDocument
  /\ storage = Null
  /\ storageFull = FALSE
  /\ location = "page1.html"
  /\ missing = {}
  /\ experiences = Undefined
  /\ ret = Undefined

\* the function named f is called with arg and returns result
Call(f, result) ==
  /\ op = ""
  /\ op' = f
  /\ ret' = result
  /\ UNCHANGED <<storage, storageFull, doc, phase, location, missing,
                 controls, slots, hiddenEls, disabled, options, data, bound,
                 experiences, alerts, threw, changed, lastWritten, frozen,
                 edits, arg>>

\* all strings over chars of length up to n
Strings(chars, n) == UNION {[1..k -> chars] : k \in 0..n}

Chars(s) == {s[i] : i \in 1..Len(s)}

MaxEmailLen == 6

EmailChars == {"a", ".", "@", " "}

InitEmail ==
  /\ Idle
  /\ arg \in Strings(EmailChars, MaxEmailLen)

CallEmailValid == Call("emailValid", Bool(emailValid(arg)))

NextEmail == CallEmailValid

SpecEmail == InitEmail /\ [][NextEmail]_vars

\* position of the last "." of s, 0 when there is none
LastDot(s) ==
  LET dots == {i \in 1..Len(s) : s[i] = "."}
  IN  IF dots = {} THEN 0 ELSE CHOOSE i \in dots : \A j \in dots : j <= i

\* the part of s after its last "."
Tld(s) == SubSeq(s, LastDot(s) + 1, Len(s))

\* a non-empty string without white space and without "@"
Part(s) == s # <<>> /\ Chars(s) \cap (WhiteSpace \cup {"@"}) = {}

\* s is local@domain.tld with a tld of two characters or more
WellFormedEmail(s) ==
  \E i \in 1..Len(s) :
     /\ s[i] = "@"
     /\ Part(SubSeq(s, 1, i - 1))
     /\ LastDot(s) > i
     /\ Part(SubSeq(s, i + 1, LastDot(s) - 1))
     /\ Part(Tld(s))
     /\ Len(Tld(s)) >= 2

\* C11: emailValid returns true for every string local@domain.tld whose
\* parts hold no white space and no "@" and whose tld has two characters or
\* more; it returns false for every string without "@" and for every string
\* whose part after the last "." is a single character.
C11_EmailShape ==
  (op = "emailValid") =>
     /\ WellFormedEmail(arg) => ret = Bool(TRUE)
     /\ "@" \notin Chars(arg) => ret = Bool(FALSE)
     /\ (LastDot(arg) # 0 /\ Len(Tld(arg)) = 1) => ret = Bool(FALSE)

(***************************************************************************)
(* The session store called on its own: saveData(arg), then loadData(),    *)
(* for snapshots whose texts hold the characters JSON escapes, over an     *)
(* empty and over a used store, writable or full.                          *)
(***************************************************************************)
MaxValueLen == 2

SnapshotChars == {"x", " ", "\t", "\"", "\\"}

\* snapshots of a text control, a second one and a checkbox
Snapshots ==
  {Obj([k \in Names |->
          CASE k = "firstName" -> f
            [] k = "lastName"  -> l
            [] k = "agree"     -> a
            [] OTHER           -> Undefined]) :
     f \in {Undefined} \cup {Str(s) : s \in Strings(SnapshotChars, MaxValueLen)},
     l \in {Undefined, Str(<<>>)},
     a \in {Undefined, Bool(TRUE), Bool(FALSE)}}

InitRoundTrip ==
  /\ NoDocument
  /\ storage \in {Null, FullStore}
  /\ storageFull \in BOOLEAN
  /\ location = "page1.html"
  /\ missing = {}
  /\ experiences = Undefined
  /\ arg \in {Undefined} \cup Snapshots
  /\ ret = Undefined

CallSaveData ==
  /\ op = ""
  /\ storage' = saveData(storage, storageFull, arg)
  /\ op' = "saveData"
  /\ UNCHANGED <<storageFull, doc, phase, location, missing, controls, slots,
                 hiddenEls, disabled, options, data, bound, experiences,
                 alerts, threw, changed, lastWritten, frozen, edits, arg, ret>>

CallLoadData ==
  /\ op = "saveData"
  /\ ret' = loadData(storage)
  /\ op' = "loadData"
  /\ UNCHANGED <<storage, storageFull, doc, phase, location, missing,
                 controls, slots, hiddenEls, disabled, options, data, bound,
                 experiences, alerts, threw, changed, lastWritten, frozen,
                 edits, arg>>

NextRoundTrip ==
  \/ CallSaveData
  \/ CallLoadData

SpecRoundTrip == InitRoundTrip /\ [][NextRoundTrip]_vars

\* C12: round trip: when the storage accepts the write, loadData() right
\* after saveData(m) returns a mapping equal to m, for every mapping m of
\* field names to strings and booleans; after saveData() without an
\* argument it returns the empty mapping.
C12_RoundTrip ==
  (op = "loadData" /\ ~storageFull) =>
     ret = (IF arg = Undefined THEN EmptyObject ELSE arg)

\* a text made of a backslash and a quote comes back, next to a false flag
C12_Witness ==
  /\ op = "loadData"
  /\ ~storageFull
  /\ storage # Null
  /\ arg # Undefined
  /\ arg.m["firstName"] = Str(<<"\\", "\"">>)
  /\ arg.m["agree"] = Bool(FALSE)
  /\ ret = arg

(***************************************************************************)
(* The page validators over different stores: pages 1 to 4 are loaded over *)
(* an empty store, a full set of answers or a set of empty answers, in a   *)
(* tab whose storage takes writes or is full (the store then keeps its     *)
(* content whatever the user enters).                                      *)
(***************************************************************************)
EmptiedStore == Str(JSONstringify(Obj([k \in Names |-> Emptied(k)])))

\* what the user enters before asking for the next page
Entered(id) ==
  CASE id = "firstName" -> {<<>>, Blank, Filled}
    [] id = "email"     -> {<<>>, GoodEmail, ShortTld}
    [] id = "zip"       -> {<<>>, GoodZip}
    [] id = "degree"    -> {<<>>, Filled}
    [] id = "licenseReq" -> {<<>>, Yes, No}
    [] id = "licenseNumber" -> {<<>>, Filled}
    [] id \in {"licenseIssue", "licenseExpiry"} -> {<<>>, January, May}
    [] OTHER            -> {}

TypeBeforeNext ==
  \E id \in Names : \E v \in Entered(id) : edits < MaxEdits /\ change(id, v)

InitValidators ==
  /\ NoDocument
  /\ NoCall
  /\ storage \in {Null, FullStore, EmptiedStore}
  /\ storageFull \in BOOLEAN
  /\ location \in {"page1.html", "page2.html", "page3.html", "page4.html"}
  /\ missing = {}
  /\ experiences \in {Undefined, Array(<<OnlyDuties>>)}

NextValidators ==
  \/ \E p \in Pages : DOMContentLoaded(p)
  \/ TypeBeforeNext
  \/ validatePage1
  \/ validatePage2
  \/ validatePage3
  \/ validatePage4

SpecValidators == InitValidators /\ [][NextValidators]_vars

\* the message the list gives for field id
MsgOf(list, id) == list[CHOOSE i \in 1..Len(list) : list[i].id = id].msg

\* the page the validator of page p navigates to
Target(p) ==
  CASE p = "page1.html" -> "page2.html"
    [] p = "page2.html" -> "page3.html"
    [] p = "page3.html" -> "page4.html"
    [] OTHER            -> "page5.html"

\* the controls and the experience list of page p pass its rules
ControlsPass(p) ==
  CASE p = "page1.html" -> \A id \in Page1Ids : Page1FieldOk(id)
    [] p = "page2.html" -> Text("degree") # <<>>
    [] p = "page3.html" -> LicenseOk /\ ExperiencesOk
    [] OTHER            -> TRUE

\* the text the validator of page p puts into slot s, given the controls
\* and the experience list; before: the text of s when the validator starts
TextFromControls(p, s, before) ==
  CASE p = "page1.html" ->
         LET id == CHOOSE f \in Page1Ids : s = "err-" \o f
         IN  IF Page1FieldOk(id) THEN "" ELSE MsgOf(requiredFields, id)
    [] p = "page2.html" ->
         IF Text("degree") # <<>> THEN ""
         ELSE "Please choose your highest degree."
    [] p = "page3.html" /\ s = "err-license" ->
         IF Text("licenseReq") # <<>> THEN ""
         ELSE "Please answer the driver's license question."
    [] p = "page3.html" /\ s = "err-experience" ->
         IF ExperiencesOk THEN ""
         ELSE IF LacksEmployerOrTitle(experiences.a[FirstViolation])
         THEN "Each work experience must include Employer and Job Title."
         ELSE "Experience #" \o ToString(FirstViolation)
                \o ": End Date must be after Start Date."
    [] OTHER ->
         LET id == CHOOSE f \in LicenseDetailIds : s = "err-" \o f
         IN  IF Text("licenseReq") # Yes THEN before
             ELSE IF id = "licenseExpiry" /\ ExpiryBeforeIssue
             THEN "Expiry date must be after issue date."
             ELSE IF Text(id) = <<>> THEN MsgOf(requiredLicenseFields, id)
             ELSE ""

MaxSepRun == 2

\* nothing, or up to MaxSepRun times the same separating character
SeparatorRuns ==
  {<<>>} \cup UNION {{[i \in 1..n |-> c] : n \in 1..MaxSepRun} :
                       c \in {"-", ".", " ", "\t"}}

PhoneInputs ==
  {cc \o s0 \o open \o area \o close \o s1 \o <<"1", "2", "3">> \o s2
      \o <<"4", "5", "6", "7">> :
     cc \in {<<>>, <<"+">>, <<"1">>, <<"+", "1">>},
     s0 \in {<<>>, <<"-">>},
     open \in {<<>>, <<"(">>},
     area \in {<<"5", "5", "5">>, <<"1", "5", "5">>},
     close \in {<<>>, <<")">>},
     s1 \in SeparatorRuns,
     s2 \in SeparatorRuns}

InitPhone ==
  /\ Idle
  /\ arg \in PhoneInputs

CallPhoneValid == Call("phoneValid", Bool(phoneValid(arg)))

NextPhone == CallPhoneValid

SpecPhone == InitPhone /\ [][NextPhone]_vars

\* the forms the documentation of phoneValid lists
ListedForms ==
  {GoodPhone, PlainPhone,
   <<"5", "5", "5", "-", "1", "2", "3", "-", "4", "5", "6", "7">>,
   <<"5", "5", "5", ".", "1", "2", "3", ".", "4", "5", "6", "7">>,
   <<"+", "1", "-", "5", "5", "5", "-", "1", "2", "3", "-", "4", "5", "6", "7">>}

\* space, dot or hyphen
GroupSeparator == {" ", ".", "-"}

\* the numbers the description of the phone format admits: an optional +1,
\* an area code that is bare or in a pair of parentheses, three digits and
\* four digits, at most one separator between two groups
NorthAmerican ==
  LET first == One({"2", "3", "4", "5", "6", "7", "8", "9"})
      bare  == <<first, Rep(Digits, 2)>>
      pair  == <<One({"("}), first, Rep(Digits, 2), One({")"})>>
      tail  == <<Opt(GroupSeparator), Rep(Digits, 3), Opt(GroupSeparator),
                 Rep(Digits, 4)>>
      plus1 == <<One({"+"}), One({"1"}), Opt(GroupSeparator)>>
  IN  {bare \o tail, pair \o tail, plus1 \o bare \o tail, plus1 \o pair \o tail}

\* C17: phoneValid returns true only for numbers of the North-American
\* form (optional +1, area code starting with 2-9 that is bare or enclosed
\* in a matching pair of parentheses, three digits, four digits, at most one
\* separator of space, dot, hyphen between groups), and it returns true for
\* every such number, the five listed forms included.
C17_PhoneShape ==
  (op = "phoneValid") =>
     /\ ret = Bool(TRUE) => RegexTest(NorthAmerican, arg)
     /\ RegexTest(NorthAmerican, arg) => ret = Bool(TRUE)
     /\ arg \in ListedForms => ret = Bool(TRUE)

(***************************************************************************)
(* The error presenter over repeated passes: pages 1 to 3 are loaded, the  *)
(* user edits controls and experience entries between the calls of the     *)
(* validators.                                                             *)
(***************************************************************************)
Complete1 == Entry(Filled, Filled, <<>>, <<>>, <<>>)

\* the user changes the entries that getExperiences() returns
editExperiences ==
  /\ phase = "ready"
  /\ doc = "page3.html"
  /\ experiences # Undefined
  /\ edits < MaxEdits
  /\ \E list \in {<<>>, <<OnlyDuties>>, <<Complete1>>, <<Complete1, OnlyDuties>>} :
        /\ list # experiences.a
        /\ experiences' = Array(list)
  /\ edits' = edits + 1
  /\ op' = "editExperiences"
  /\ threw' = FALSE
  /\ alerts' = <<>>
  /\ UNCHANGED <<storage, storageFull, doc, phase, location, missing,
                 controls, slots, hiddenEls, disabled, options, data, bound,
                 changed, lastWritten, frozen, arg, ret>>

InitPresenter ==
  /\ NoDocument
  /\ NoCall
  /\ storage \in {Null, FullStore}
  /\ storageFull = FALSE
  /\ location \in {"page1.html", "page2.html", "page3.html"}
  /\ missing = {}
  /\ experiences \in {Array(<<>>), Array(<<OnlyDuties>>)}

NextPresenter ==
  \/ \E p \in Pages : DOMContentLoaded(p)
  \/ TypeBeforeNext
  \/ editExperiences
  \/ validatePage1
  \/ validatePage2
  \/ validatePage3

SpecPresenter == InitPresenter /\ [][NextPresenter]_vars

\* C18: invariant of the error presenter: in every state reached through
\* showError, clearError and the page validators from slots that are hidden
\* and carry no role, a slot carries the alert role if and only if it is
\* visible and its text is not empty; err-experience included, across
\* repeated validatePage3 passes.
C18_AlertRoleIffShown ==
  \A s \in Slots :
     (slots[s].role = "alert") <=> (~slots[s].hidden /\ slots[s].text # "")

(***************************************************************************)
(* The whole journey: page 1 is opened in a tab that holds the answers of   *)
(* an earlier visit, some of them never given; the user fills in and       *)
(* changes controls, every change fires its listener, and each next page   *)
(* is reached through the validator of the page before it.                 *)
(***************************************************************************)
MaxJourneyEdits == 5

\* the answers the earlier visit may have left out
JourneyFields == {"firstName", "zip", "degree", "licenseReq", "agree"}

\* what the user enters on the journey
JourneyInputs(id) ==
  CASE id = "firstName"  -> {<<>>, Blank, Padded}
    [] id = "zip"        -> {<<>>, ShortZip, GoodZip}
    [] id = "degree"     -> {<<>>, Filled}
    [] id = "licenseReq" -> {<<>>, No}
    [] id = "agree"      -> {<<"o", "n">>}
    [] OTHER             -> {}

TypeOnJourney ==
  \E id \in Names : \E v \in JourneyInputs(id) :
     edits < MaxJourneyEdits /\ change(id, v)

\* the store after the earlier visit
JourneyStores ==
  {Str(JSONstringify(Obj([k \in Names |->
      IF k \in K THEN Undefined
      ELSE FullAnswers[k]]))) : K \in SUBSET JourneyFields}

InitJourney ==
  /\ NoDocument
  /\ NoCall
  /\ storage \in JourneyStores
  /\ storageFull = FALSE
  /\ location = "page1.html"
  /\ missing = {}
  /\ experiences = Array(<<>>)

NextJourney ==
  \/ \E p \in Pages : DOMContentLoaded(p)
  \/ TypeOnJourney
  \/ validatePage1
  \/ validatePage2
  \/ validatePage3
  \/ validatePage4
  \/ submitApp

SpecJourney == InitJourney /\ [][NextJourney]_vars

\* the fields the validators of pages 1 to 3 require in every case
EnforcedByValidators ==
  {requiredFields[i].id : i \in 1..Len(requiredFields)}
    \cup {"degree", "licenseReq"}

\* C19: when the final page is reached only through validatePage1,
\* validatePage2 and validatePage3 in order and every edit fired its change
\* event, the required-field check of submitApp passes: the eleven fields
\* of the submission gate are the fields the three validators enforce, the
\* store holds a truthy value for each, and submitApp raises no alert about
\* a missing field.
C19_JourneyPassesGate ==
  /\ {criticalFields[i] : i \in 1..Len(criticalFields)} = EnforcedByValidators
  /\ Len(criticalFields) = 11
  /\ (doc = "page5.html") =>
        \A i \in 1..Len(criticalFields) : Truthy(Stored(storage, criticalFields[i]))
  /\ (op = "submitApp") =>
        /\ ~threw
        /\ alerts \in {<<>>, <<"You must agree to the application acknowledgement.">>}

\* the earlier visit left out four required answers and the agreement;
\* all were given on the way, the first name with blanks around it, the
\* license answer is "no", and the submission succeeds
C19_Witness ==
  /\ op = "submitApp"
  /\ \A k \in JourneyFields : lastWritten[k] # Undefined
  /\ lastWritten["firstName"] = Str(Padded)
  /\ lastWritten["licenseReq"] = Str(No)
  /\ Submitted

(***************************************************************************)
(* The two gates: page 1 is opened over a full set of answers, the user    *)
(* changes controls, asks for the next page, opens pages by their address  *)
(* and submits on the final page.                                          *)
(***************************************************************************)
InitGates ==
  /\ NoDocument
  /\ NoCall
  /\ storage = FullStore
  /\ storageFull = FALSE
  /\ location = "page1.html"
  /\ missing = {}
  /\ experiences = Array(<<>>)

\* the user changes the first name or the agreement
TypeAtGates ==
  \E id \in {"firstName", "agree"} : \E v \in JourneyInputs(id) :
     edits < MaxEdits /\ change(id, v)

NextGates ==
  \/ \E p \in Pages : DOMContentLoaded(p)
  \/ \E p \in {"page1.html", "page5.html"} : Open(p)
  \/ TypeAtGates
  \/ validatePage1
  \/ submitApp

SpecGates == InitGates /\ [][NextGates]_vars

\* what getValue makes of the text v is empty, so that a page validator
\* reports the field as missing
EmptyForValidator(v) == v.t = "string" /\ Trim(v.s) = <<>>

\* C20: the two gates agree on what is empty: when the store holds, for a
\* required field, a value written by the change listener that the page
\* validator treats as empty (empty after trimming), submitApp treats the
\* field as missing too: it aborts with the alert about a missing field, so
\* that a submission never succeeds with such a value.
C20_GatesAgreeOnEmpty ==
  (op = "submitApp") =>
     \A i \in 1..Len(criticalFields) :
        LET k == criticalFields[i]
        IN  (lastWritten[k] = Stored(storage, k) /\ EmptyForValidator(lastWritten[k]))
               => \E j \in 1..i : alerts = <<MissingAlert(criticalFields[j])>>

====
